---------------------------- MODULE Spec2Model ----------------------------
(***************************************************************************)
(* A model of typed-query.ts: defineQuerySpec and the object it returns    *)
(* (namesList, isValidName, getName, isValidValue and urlHelpers), acting  *)
(* on a URLSearchParams instance.                                          *)
(*                                                                         *)
(* Texts are sequences of one-character strings, so that the conversions   *)
(* Number(text) and String(number) are computed character by character.    *)
(* Texts are well-formed Unicode (URLSearchParams stores USVStrings; a     *)
(* lone surrogate is outside the model).  Parameter names and store keys   *)
(* are never parsed and are plain strings.                                 *)
(***************************************************************************)
EXTENDS Integers, Sequences, FiniteSets, TLC

VARIABLES spec, params, before, call, ret

vars == <<spec, params, before, call, ret>>

(***************************************************************************)
(* Bounds of the model.                                                    *)
(***************************************************************************)
\* The largest number of entries the URLSearchParams instance holds.
MaxEntries == 2

(***************************************************************************)
(* JavaScript numbers.  A finite number is (-1)^neg * m * 10^e, kept in    *)
(* normal form: m = 0 has e = 0, and otherwise 10 does not divide m.  The  *)
(* model's numbers have few significant digits, where the shortest decimal *)
(* that String() prints identifies the double.                             *)
(***************************************************************************)
NaN == [k |-> "nan", neg |-> FALSE, m |-> 0, e |-> 0]

Infinity(neg) == [k |-> "inf", neg |-> neg, m |-> 0, e |-> 0]

RECURSIVE Normal(_, _, _)
Normal(neg, m, e) ==
    IF m = 0 THEN [k |-> "fin", neg |-> neg, m |-> 0, e |-> 0]
    ELSE IF m % 10 = 0 THEN Normal(neg, m \div 10, e + 1)
    ELSE [k |-> "fin", neg |-> neg, m |-> m, e |-> e]

Finite(neg, m, e) == Normal(neg, m, e)

\* isNaN(num), for num a number
isNaN(num) == num.k = "nan"

(***************************************************************************)
(* Characters and texts.                                                   *)
(***************************************************************************)
DecimalDigit == <<"0", "1", "2", "3", "4", "5", "6", "7", "8", "9">>

HexDigitLower == <<"a", "b", "c", "d", "e", "f">>

HexDigitUpper == <<"A", "B", "C", "D", "E", "F">>

StrWhiteSpaceChar == {" ", "\t", "\n"}

IsDecimalDigit(c) == \E i \in 1..10 : DecimalDigit[i] = c

\* The value of the digit c in the given radix, or -1 when c is no digit of it
DigitValue(c, radix) ==
    LET v == IF \E i \in 1..10 : DecimalDigit[i] = c
             THEN (CHOOSE i \in 1..10 : DecimalDigit[i] = c) - 1
             ELSE IF \E i \in 1..6 : HexDigitLower[i] = c
             THEN (CHOOSE i \in 1..6 : HexDigitLower[i] = c) + 9
             ELSE IF \E i \in 1..6 : HexDigitUpper[i] = c
             THEN (CHOOSE i \in 1..6 : HexDigitUpper[i] = c) + 9
             ELSE -1
    IN  IF v < radix THEN v ELSE -1

RECURSIVE Pow10(_)
Pow10(n) == IF n <= 0 THEN 1 ELSE 10 * Pow10(n - 1)

\* The first index >= i of s that holds no digit of the radix (Len(s)+1 at the end)
RECURSIVE SkipDigits(_, _, _)
SkipDigits(s, i, radix) ==
    IF i <= Len(s) /\ DigitValue(s[i], radix) >= 0
    THEN SkipDigits(s, i + 1, radix)
    ELSE i

\* The value of the digits s[i..j-1] in the radix (0 for none)
RECURSIVE DigitsValue(_, _, _, _)
DigitsValue(s, i, j, radix) ==
    IF j <= i THEN 0
    ELSE DigitsValue(s, i, j - 1, radix) * radix + DigitValue(s[j - 1], radix)

RECURSIVE TrimStart(_)
TrimStart(s) ==
    IF s # <<>> /\ Head(s) \in StrWhiteSpaceChar THEN TrimStart(Tail(s)) ELSE s

RECURSIVE TrimEnd(_)
TrimEnd(s) ==
    IF s # <<>> /\ s[Len(s)] \in StrWhiteSpaceChar
    THEN TrimEnd(SubSeq(s, 1, Len(s) - 1))
    ELSE s

Trim(s) == TrimEnd(TrimStart(s))

InfinityLiteral == <<"I", "n", "f", "i", "n", "i", "t", "y">>

(***************************************************************************)
(* Number(text): the StringToNumber conversion.  White space is trimmed,   *)
(* the empty text is +0, then the text is a signed decimal literal (with   *)
(* an optional fraction and exponent, or Infinity) or an unsigned 0x / 0o  *)
(* / 0b integer literal; any other text is NaN.                            *)
(***************************************************************************)
\* An unsigned 0x.., 0o.., 0b.. literal, or NaN
NonDecimalIntegerLiteral(t) ==
    LET radix == IF t[2] \in {"x", "X"} THEN 16
                 ELSE IF t[2] \in {"o", "O"} THEN 8 ELSE 2
        stop == SkipDigits(t, 3, radix)
    IN  IF Len(t) >= 3 /\ stop = Len(t) + 1
        THEN Finite(FALSE, DigitsValue(t, 3, stop, radix), 0)
        ELSE NaN

\* A decimal literal u (unsigned) with the sign neg, or NaN
StrUnsignedDecimalLiteral(u, neg) ==
    IF u = InfinityLiteral THEN Infinity(neg)
    ELSE
    LET intEnd == SkipDigits(u, 1, 10)
        hasDot == intEnd <= Len(u) /\ u[intEnd] = "."
        fracStart == IF hasDot THEN intEnd + 1 ELSE intEnd
        fracEnd == SkipDigits(u, fracStart, 10)
        fracLen == fracEnd - fracStart
        hasExp == fracEnd <= Len(u) /\ u[fracEnd] \in {"e", "E"}
        expSigned == hasExp /\ fracEnd + 1 <= Len(u) /\ u[fracEnd + 1] \in {"+", "-"}
        expNeg == expSigned /\ u[fracEnd + 1] = "-"
        expStart == IF expSigned THEN fracEnd + 2 ELSE fracEnd + 1
        expEnd == IF hasExp THEN SkipDigits(u, expStart, 10) ELSE fracEnd
        expAbs == IF hasExp THEN DigitsValue(u, expStart, expEnd, 10) ELSE 0
        exp == IF expNeg THEN 0 - expAbs ELSE expAbs
        mant == DigitsValue(u, 1, intEnd, 10) * Pow10(fracLen)
                    + DigitsValue(u, fracStart, fracEnd, 10)
    IN  IF /\ (intEnd > 1 \/ fracLen > 0)
           /\ (hasExp => expEnd > expStart)
           /\ expEnd = Len(u) + 1
        THEN Finite(neg, mant, exp - fracLen)
        ELSE NaN

StringToNumber(s) ==
    LET t == Trim(s)
    IN  IF t = <<>> THEN Finite(FALSE, 0, 0)
        ELSE IF Len(t) >= 2 /\ t[1] = "0" /\ t[2] \in {"x", "X", "o", "O", "b", "B"}
        THEN NonDecimalIntegerLiteral(t)
        ELSE IF t[1] \in {"+", "-"}
        THEN StrUnsignedDecimalLiteral(Tail(t), t[1] = "-")
        ELSE StrUnsignedDecimalLiteral(t, FALSE)

(***************************************************************************)
(* String(number): Number::toString in radix 10.                           *)
(***************************************************************************)
\* The decimal digits of the natural number n
RECURSIVE NatToDigits(_)
NatToDigits(n) ==
    IF n < 10 THEN <<DecimalDigit[n + 1]>>
    ELSE Append(NatToDigits(n \div 10), DecimalDigit[(n % 10) + 1])

RECURSIVE Zeros(_)
Zeros(n) == IF n <= 0 THEN <<>> ELSE <<"0">> \o Zeros(n - 1)

NumberToString(num) ==
    IF num.k = "nan" THEN <<"N", "a", "N">>
    ELSE IF num.k = "inf"
    THEN (IF num.neg THEN <<"-">> ELSE <<>>) \o InfinityLiteral
    ELSE IF num.m = 0 THEN <<"0">>
    ELSE
    LET digits == NatToDigits(num.m)
        kk == Len(digits)
        n == kk + num.e
        sign == IF num.neg THEN <<"-">> ELSE <<>>
        expo == (IF n - 1 < 0 THEN <<"e", "-">> ELSE <<"e", "+">>)
                    \o NatToDigits(IF n - 1 < 0 THEN 1 - n ELSE n - 1)
    IN  sign \o
        (IF kk <= n /\ n <= 21 THEN digits \o Zeros(n - kk)
         ELSE IF 0 < n /\ n <= 21
         THEN SubSeq(digits, 1, n) \o <<".">> \o SubSeq(digits, n + 1, kk)
         ELSE IF -6 < n /\ n <= 0
         THEN <<"0", ".">> \o Zeros(0 - n) \o digits
         ELSE IF kk = 1 THEN digits \o expo
         ELSE <<digits[1], ".">> \o SubSeq(digits, 2, kk) \o expo)


(***************************************************************************)
(* JavaScript values of any runtime type, as isValidValue and the write    *)
(* helpers may receive them.                                               *)
(***************************************************************************)
StringValue(s) == [t |-> "string", s |-> s, n |-> NaN, b |-> FALSE]

NumberValue(n) == [t |-> "number", s |-> <<>>, n |-> n, b |-> FALSE]

BooleanValue(b) == [t |-> "boolean", s |-> <<>>, n |-> NaN, b |-> b]

null == [t |-> "null", s |-> <<>>, n |-> NaN, b |-> FALSE]

undefined == [t |-> "undefined", s |-> <<>>, n |-> NaN, b |-> FALSE]

\* A plain object {}
PlainObject == [t |-> "object", s |-> <<>>, n |-> NaN, b |-> FALSE]

\* typeof value
typeof(value) == IF value.t = "null" THEN "object" ELSE value.t

\* String(value)
String(value) ==
    CASE value.t = "string" -> value.s
      [] value.t = "number" -> NumberToString(value.n)
      [] value.t = "boolean" ->
            IF value.b THEN <<"t", "r", "u", "e">> ELSE <<"f", "a", "l", "s", "e">>
      [] value.t = "null" -> <<"n", "u", "l", "l">>
      [] value.t = "undefined" -> <<"u", "n", "d", "e", "f", "i", "n", "e", "d">>
      [] OTHER -> <<"[", "o", "b", "j", "e", "c", "t", " ", "O", "b", "j", "e", "c", "t", "]">>

\* Number(rawValue), for a text
Number(rawValue) == NumberValue(StringToNumber(rawValue))

(***************************************************************************)
(* Specification objects.  An object literal keeps its keys in insertion   *)
(* order, so a specification is a sequence of (key, validator) pairs; the  *)
(* validator is the String constructor, the Number constructor or an array *)
(* of text literals.                                                       *)
(***************************************************************************)
StringConstructor == [kind |-> "String", items |-> <<>>]

NumberConstructor == [kind |-> "Number", items |-> <<>>]

ArrayOf(items) == [kind |-> "Array", items |-> items]

admin == <<"a", "d", "m", "i", "n">>

user == <<"u", "s", "e", "r">>

intern == <<"i", "n", "t", "e", "r", "n">>

testSpec ==
    << [key |-> "name", validator |-> StringConstructor],
       [key |-> "age", validator |-> NumberConstructor],
       [key |-> "role", validator |-> ArrayOf(<<admin, user, intern>>)] >>

in == <<"i", "n">>

out == <<"o", "u", "t">>

transfer == <<"t", "r", "a", "n", "s", "f", "e", "r">>

savings == <<"s", "a", "v", "i", "n", "g", "s">>

operational == <<"o", "p", "e", "r", "a", "t", "i", "o", "n", "a", "l">>

tax == <<"t", "a", "x">>

myQuerySpec ==
    << [key |-> "term", validator |-> StringConstructor],
       [key |-> "direction", validator |-> ArrayOf(<<in, out, transfer>>)],
       [key |-> "account", validator |-> ArrayOf(<<savings, operational, tax>>)],
       [key |-> "amount", validator |-> NumberConstructor] >>

\* Object.keys(obj): the own keys, in insertion order
ObjectKeys(obj) == [i \in 1..Len(obj) |-> obj[i].key]

\* The property names every object literal inherits from Object.prototype
ObjectPrototypeKeys ==
    {"constructor", "toString", "toLocaleString", "valueOf", "hasOwnProperty",
     "isPrototypeOf", "propertyIsEnumerable", "__proto__"}

HasOwnProperty(obj, key) == \E i \in 1..Len(obj) : obj[i].key = key

\* key in obj: an own property, or one found along the prototype chain
HasProperty(obj, key) == HasOwnProperty(obj, key) \/ key \in ObjectPrototypeKeys

\* obj[key], for an own key
Lookup(obj, key) == obj[CHOOSE i \in 1..Len(obj) : obj[i].key = key].validator

\* validator.includes(value): some element is the same value (SameValueZero)
includes(items, value) ==
    \E i \in 1..Len(items) : value.t = "string" /\ items[i] = value.s

(***************************************************************************)
(* defineQuerySpec: the members of the returned object that are not url    *)
(* helpers.  s is the captured specification.                              *)
(***************************************************************************)
namesList(s) == ObjectKeys(s)

names(s) == [k \in {s[i].key : i \in 1..Len(s)} |-> k]

isValidName(s, name) == HasProperty(s, name)

getName(s, name) == name

\* Fault variant of isValidValue: the Number branch without the isNaN test
isValidValue_AcceptsNaN(s, key, value) ==
    LET validator == Lookup(s, key)
    IN  IF validator = StringConstructor THEN typeof(value) = "string"
        ELSE IF validator = NumberConstructor THEN typeof(value) = "number"
        ELSE IF validator.kind = "Array" THEN includes(validator.items, value)
        ELSE FALSE

isValidValue(s, key, value) ==
    LET validator == Lookup(s, key)
    IN  IF validator = StringConstructor THEN typeof(value) = "string"
        ELSE IF validator = NumberConstructor
        THEN typeof(value) = "number" /\ ~isNaN(value.n)
        ELSE IF validator.kind = "Array" THEN includes(validator.items, value)
        ELSE FALSE

(***************************************************************************)
(* URLSearchParams: a list of (key, value) pairs of texts.                 *)
(***************************************************************************)
Entry(key, value) == [key |-> key, value |-> value]

\* params.getAll(name)
URLSearchParams_getAll(p, name) ==
    LET IsName(en) == en.key = name
        found == SelectSeq(p, IsName)
    IN  [i \in 1..Len(found) |-> found[i].value]

\* params.has(name)
URLSearchParams_has(p, name) == \E i \in 1..Len(p) : p[i].key = name

\* params.get(name): the first value of name as a string value, or null
URLSearchParams_get(p, name) ==
    IF URLSearchParams_has(p, name)
    THEN StringValue(p[CHOOSE i \in 1..Len(p) :
                            /\ p[i].key = name
                            /\ \A j \in 1..(i - 1) : p[j].key # name].value)
    ELSE null

\* params.append(name, value)
URLSearchParams_append(p, name, value) == Append(p, Entry(name, value))

\* params.delete(name)
URLSearchParams_delete(p, name) ==
    LET Other(en) == en.key # name
    IN  SelectSeq(p, Other)

\* params.delete(name, value)
URLSearchParams_deleteValue(p, name, value) ==
    LET Other(en) == ~(en.key = name /\ en.value = value)
    IN  SelectSeq(p, Other)

\* params.set(name, value): the first entry of name takes the value and the
\* others of name are removed; with no entry of name, the pair is appended
URLSearchParams_set(p, name, value) ==
    IF URLSearchParams_has(p, name)
    THEN LET first == CHOOSE i \in 1..Len(p) :
                        /\ p[i].key = name
                        /\ \A j \in 1..(i - 1) : p[j].key # name
             Other(en) == en.key # name
         IN  SubSeq(p, 1, first - 1) \o <<Entry(name, value)>>
                \o SelectSeq(SubSeq(p, first + 1, Len(p)), Other)
    ELSE Append(p, Entry(name, value))

(***************************************************************************)
(* urlHelpers.  s is the specification captured by defineQuerySpec and p   *)
(* the URLSearchParams instance; the writing helpers yield the instance    *)
(* as the call leaves it.                                                  *)
(***************************************************************************)
\* Fault variant of set: params.append in place of params.set
set_AsAppend(p, name, value) == URLSearchParams_append(p, name, String(value))

\* Fault variant of set: the instance is left holding the new pair alone
set_ClearsStore(p, name, value) == <<Entry(name, String(value))>>

set(p, name, value) == URLSearchParams_set(p, name, String(value))

\* Fault variant of get: the Number branch without the isNaN test
get_NoNaNCheck(s, p, name) ==
    LET rawValue == URLSearchParams_get(p, name)
        validator == Lookup(s, name)
    IN  IF rawValue = null THEN null
        ELSE IF validator = StringConstructor THEN rawValue
        ELSE IF validator = NumberConstructor THEN Number(rawValue.s)
        ELSE IF validator.kind = "Array"
        THEN (IF includes(validator.items, rawValue) THEN rawValue ELSE null)
        ELSE null

get(s, p, name) ==
    LET rawValue == URLSearchParams_get(p, name)
        validator == Lookup(s, name)
        num == Number(rawValue.s)
    IN  IF rawValue = null THEN null
        ELSE IF validator = StringConstructor THEN rawValue
        ELSE IF validator = NumberConstructor
        THEN (IF ~isNaN(num.n) THEN num ELSE null)
        ELSE IF validator.kind = "Array"
        THEN (IF includes(validator.items, rawValue) THEN rawValue ELSE null)
        ELSE null

\* Fault variant of getAll: a malformed entry yields null in place of being dropped
getAll_NullFills(s, p, name) ==
    LET rawValues == URLSearchParams_getAll(p, name)
    IN  [i \in 1..Len(rawValues) |-> get(s, <<Entry(name, rawValues[i])>>, name)]

getAll(s, p, name) ==
    LET rawValues == URLSearchParams_getAll(p, name)
        validator == Lookup(s, name)
        strings == [i \in 1..Len(rawValues) |-> StringValue(rawValues[i])]
        numbers == [i \in 1..Len(rawValues) |-> Number(rawValues[i])]
        NotNaN(num) == ~isNaN(num.n)
        Included(val) == includes(validator.items, val)
    IN  IF validator = StringConstructor THEN strings
        ELSE IF validator = NumberConstructor THEN SelectSeq(numbers, NotNaN)
        ELSE IF validator.kind = "Array" THEN SelectSeq(strings, Included)
        ELSE <<>>

\* Fault variant of append: params.set in place of params.append
append_AsSet(p, name, value) == URLSearchParams_set(p, name, String(value))

append(p, name, value) == URLSearchParams_append(p, name, String(value))

has(p, name) == URLSearchParams_has(p, name)

\* Fault variant of delete: the value is ignored and every entry of name removed
delete_IgnoresValue(p, name, value) == URLSearchParams_delete(p, name)

delete(p, name, value) ==
    IF value # undefined
    THEN URLSearchParams_deleteValue(p, name, String(value))
    ELSE URLSearchParams_delete(p, name)

\* Object.keys(spec).forEach((key) => params.delete(key)), over the keys from i on
RECURSIVE ForEachDelete(_, _, _)
ForEachDelete(keys, i, p) ==
    IF i > Len(keys) THEN p
    ELSE ForEachDelete(keys, i + 1, URLSearchParams_delete(p, keys[i]))

\* Fault variant of clearAll: the first key of the specification is skipped
clearAll_SkipsFirstKey(s, p) == ForEachDelete(ObjectKeys(s), 2, p)

clearAll(s, p) == ForEachDelete(ObjectKeys(s), 1, p)

(***************************************************************************)
(* The inputs of the model.                                                *)
(***************************************************************************)
\* The names a caller may pass: the keys of the specification
Names(s) == {namesList(s)[i] : i \in 1..Len(namesList(s))}

\* A key of the query string that no specification defines
ForeignKeys == {"testing"}

fourtytwo == <<"f", "o", "u", "r", "t", "y", "t", "w", "o">>

bossman == <<"b", "o", "s", "s", "m", "a", "n">>

\* The texts other code writes into the query string under a key
RawTexts(s, key) ==
    IF ~HasOwnProperty(s, key) THEN { <<"1", "2", "3">>, <<"4", "2">> }
    ELSE IF Lookup(s, key) = StringConstructor THEN { <<"4", "2">>, <<>> }
    ELSE IF Lookup(s, key) = NumberConstructor
    THEN { <<"4", "2">>, fourtytwo, <<>>, <<"0", "x", "2", "A">>,
           <<" ", "4", ".", "5">> }
    ELSE { intern, bossman }

\* The values of the parameter's static type (Params[K])
TypedValues(s, name) ==
    IF Lookup(s, name) = StringConstructor
    THEN { StringValue(<<"4", "2">>), StringValue(<<>>) }
    ELSE IF Lookup(s, name) = NumberConstructor
    THEN { NumberValue(Finite(FALSE, 42, 0)), NumberValue(Finite(FALSE, 45, -1)),
           NumberValue(Finite(TRUE, 0, 0)), NumberValue(Finite(FALSE, 1, 21)),
           NumberValue(Infinity(FALSE)), NumberValue(NaN) }
    ELSE { StringValue(Lookup(s, name).items[i]) :
                i \in {1, Len(Lookup(s, name).items)} }

\* Values of another type, as code that is not type-checked may pass
UntypedValues(s, name) ==
    IF Lookup(s, name) = StringConstructor
    THEN { NumberValue(Finite(FALSE, 42, 0)) }
    ELSE IF Lookup(s, name) = NumberConstructor
    THEN { StringValue(fourtytwo) }
    ELSE { StringValue(bossman) }

AnyValues(s, name) == TypedValues(s, name) \cup UntypedValues(s, name)

(***************************************************************************)
(* The state: the captured specification, the URLSearchParams instance,    *)
(* and the call being made, if any: its arguments, the instance before it  *)
(* and what it returned.                                                   *)
(***************************************************************************)
Call(op, name, value) == [op |-> op, name |-> name, value |-> value]

Idle == Call("idle", "", undefined)

\* const q = defineQuerySpec(testSpec); const p = new URLSearchParams()
Init ==
    /\ spec = testSpec
    /\ params = <<>>
    /\ before = <<>>
    /\ call = Idle
    /\ ret = undefined

\* A call that leaves the instance as after and returns nothing
Write(c, after) ==
    /\ call = Idle
    /\ Len(after) <= MaxEntries
    /\ params' = after
    /\ before' = params
    /\ call' = c
    /\ ret' = undefined
    /\ UNCHANGED spec

\* A call that returns result and leaves the instance alone
Read(c, result) ==
    /\ call = Idle
    /\ before' = params
    /\ call' = c
    /\ ret' = result
    /\ UNCHANGED <<spec, params>>

\* The caller goes on to its next statement
Continue ==
    /\ call # Idle
    /\ before' = <<>>
    /\ call' = Idle
    /\ ret' = undefined
    /\ UNCHANGED <<spec, params>>

\* p.set(key, text), by other code
RawSet ==
    \E key \in Names(spec) \cup ForeignKeys :
        \E text \in RawTexts(spec, key) :
            Write(Call("p.set", key, StringValue(text)),
                  URLSearchParams_set(params, key, text))

\* p.append(key, text), by other code
RawAppend ==
    \E key \in Names(spec) \cup ForeignKeys :
        \E text \in RawTexts(spec, key) :
            Write(Call("p.append", key, StringValue(text)),
                  URLSearchParams_append(params, key, text))

Set ==
    \E name \in Names(spec) :
        \E value \in AnyValues(spec, name) :
            Write(Call("set", name, value), set(params, name, value))

Append_ ==
    \E name \in Names(spec) :
        \E value \in AnyValues(spec, name) :
            Write(Call("append", name, value), append(params, name, value))

Delete ==
    \E name \in Names(spec) :
        \E value \in AnyValues(spec, name) \cup {undefined} :
            Write(Call("delete", name, value), delete(params, name, value))

ClearAll == Write(Call("clearAll", "", undefined), clearAll(spec, params))

Get ==
    \E name \in Names(spec) :
        Read(Call("get", name, undefined), get(spec, params, name))

GetAll ==
    \E name \in Names(spec) :
        Read(Call("getAll", name, undefined), getAll(spec, params, name))

Has ==
    \E name \in Names(spec) :
        Read(Call("has", name, undefined), BooleanValue(has(params, name)))

Next ==
    \/ RawSet
    \/ RawAppend
    \/ Set
    \/ Append_
    \/ Delete
    \/ ClearAll
    \/ Get
    \/ GetAll
    \/ Has
    \/ Continue

Spec == Init /\ [][Next]_vars

(***************************************************************************)
(* The validator alone: isValidName, getName and isValidValue of the two   *)
(* specifications the repository constructs, on inputs of every type.      *)
(***************************************************************************)
\* The strings a caller may test with isValidName
Candidates ==
    {"name", "age", "role", "term", "direction", "account", "amount", "testing",
     "Name", "", "toString", "constructor"}

Intern == <<"I", "n", "t", "e", "r", "n">>

\* Values of every runtime type
RuntimeValues ==
    { StringValue(intern), StringValue(Intern), StringValue(admin),
      StringValue(bossman), StringValue(in), StringValue(tax),
      StringValue(<<"4", "2">>), StringValue(<<>>),
      NumberValue(Finite(FALSE, 42, 0)), NumberValue(Finite(TRUE, 45, -1)),
      NumberValue(Finite(TRUE, 0, 0)), NumberValue(NaN),
      NumberValue(Infinity(FALSE)), NumberValue(Infinity(TRUE)),
      BooleanValue(TRUE), BooleanValue(FALSE), null, undefined, PlainObject }

\* const q = defineQuerySpec(testSpec), or const myQuery = defineQuerySpec({...})
InitValidator ==
    /\ spec \in {testSpec, myQuerySpec}
    /\ params = <<>>
    /\ before = <<>>
    /\ call = Idle
    /\ ret = undefined

IsValidName ==
    \E candidate \in Candidates :
        Read(Call("isValidName", candidate, undefined),
             BooleanValue(isValidName(spec, candidate)))

GetName ==
    \E name \in Names(spec) :
        Read(Call("getName", name, undefined),
             [t |-> "name", s |-> getName(spec, name), n |-> NaN, b |-> FALSE])

IsValidValue ==
    \E name \in Names(spec), value \in RuntimeValues :
        Read(Call("isValidValue", name, value),
             BooleanValue(isValidValue(spec, name, value)))

NextValidator ==
    \/ IsValidName
    \/ GetName
    \/ IsValidValue
    \/ Continue

SpecValidator == InitValidator /\ [][NextValidator]_vars

(***************************************************************************)
(* The vocabulary of the properties: a parameter's kind and its literals,  *)
(* the values valid for it, and the raw entries of a key.                  *)
(***************************************************************************)
KindOf(s, name) ==
    IF Lookup(s, name).kind = "String" THEN "Text"
    ELSE IF Lookup(s, name).kind = "Number" THEN "Numeric"
    ELSE "Enumeration"

Literals(s, name) ==
    {Lookup(s, name).items[i] : i \in 1..Len(Lookup(s, name).items)}

\* value is valid for the parameter: a string for Text, a number other than
\* NaN for Numeric, one of the listed literals for Enumeration
ValidFor(s, name, value) ==
    CASE KindOf(s, name) = "Text" -> value.t = "string"
      [] KindOf(s, name) = "Numeric" -> value.t = "number" /\ value.n.k # "nan"
      [] OTHER -> value.t = "string" /\ value.s \in Literals(s, name)

IsFinite(value) == value.t = "number" => value.n.k = "fin"

\* Equal numbers (x === y): NaN equals nothing, +0 equals -0
NumStrictEquals(x, y) ==
    /\ ~isNaN(x)
    /\ ~isNaN(y)
    /\ \/ x = y
       \/ x.k = "fin" /\ y.k = "fin" /\ x.m = 0 /\ y.m = 0

\* Equal values: the same string, or equal numbers
SameValue(a, b) ==
    IF a.t = "number" /\ b.t = "number" THEN NumStrictEquals(a.n, b.n) ELSE a = b

\* The raw texts stored under key, in store order
RawOf(p, key) ==
    LET IsKey(en) == en.key = key
        found == SelectSeq(p, IsKey)
    IN  [i \in 1..Len(found) |-> found[i].value]

\* The entries of every key but key, in store order
Others(p, key) ==
    LET NotKey(en) == en.key # key
    IN  SelectSeq(p, NotKey)

\* The entries of the keys no specification name covers, in store order
Foreign(s, p) ==
    LET NotName(en) == en.key \notin Names(s)
    IN  SelectSeq(p, NotName)

\* A text that holds no decimal digit and does not spell Infinity names no number
NonNumeric(text) ==
    /\ \A i \in 1..Len(text) : ~IsDecimalDigit(text[i])
    /\ Trim(text) \notin {InfinityLiteral, <<"+">> \o InfinityLiteral,
                          <<"-">> \o InfinityLiteral}

\* What get yields for a store holding the one raw text under name
Decode(s, name, text) == get(s, <<Entry(name, text)>>, name)

(***************************************************************************)
(* C1.  set then get round-trips.                                          *)
(***************************************************************************)
\* C1: whatever the store held for name, after set(store, name, value) with a
\* value valid for the parameter (a finite number for Numeric), get(store, name)
\* returns that value: the same string, or an equal number.
C1_RoundTrip ==
    (/\ call.op = "set"
     /\ ValidFor(spec, call.name, call.value)
     /\ IsFinite(call.value))
        => SameValue(get(spec, params, call.name), call.value)

\* A Numeric value was set over two older entries, the first of them malformed
C1_Witness ==
    /\ call.op = "set"
    /\ ValidFor(spec, call.name, call.value)
    /\ call.value.t = "number"
    /\ call.value.n.k = "fin"
    /\ Len(RawOf(before, call.name)) = 2
    /\ get(spec, before, call.name) = null

(***************************************************************************)
(* C2.  get decodes the first stored value.                                *)
(***************************************************************************)
\* C2: get(store, name) is absent when the store has no entry for name; else it
\* decodes the first raw text: unchanged for Text; the parsed number for
\* Numeric, and absent for every non-numeric text; the text itself for an
\* Enumeration when it is one of the literals, and absent otherwise.
C2_GetDecodesFirst ==
    call.op = "get" =>
        LET raw == RawOf(before, call.name)
            kind == KindOf(spec, call.name)
        IN  IF raw = <<>> THEN ret = null
            ELSE CASE kind = "Text" -> ret = StringValue(raw[1])
                   [] kind = "Numeric" ->
                        /\ NonNumeric(raw[1]) => ret = null
                        /\ ret # null => ret = NumberValue(StringToNumber(raw[1]))
                        /\ ret = null => isNaN(StringToNumber(raw[1]))
                   [] OTHER ->
                        IF raw[1] \in Literals(spec, call.name)
                        THEN ret = StringValue(raw[1])
                        ELSE ret = null

(***************************************************************************)
(* C3.  clearAll removes the specification's keys and nothing else.        *)
(***************************************************************************)
\* C3: after clearAll(store) no name of the specification has an entry, and the
\* entries of every other key are the same, in the same order, as before.
C3_ClearAllLocality ==
    call.op = "clearAll" =>
        /\ \A name \in Names(spec) : RawOf(params, name) = <<>>
        /\ Foreign(spec, params) = Foreign(spec, before)

\* clearAll ran on a store holding an entry of the specification and a foreign one
C3_Witness ==
    /\ call.op = "clearAll"
    /\ \E name \in Names(spec) : RawOf(before, name) # <<>>
    /\ Foreign(spec, before) # <<>>
    /\ params # <<>>

(***************************************************************************)
(* C4.  set replaces every value of name and touches no other key.         *)
(***************************************************************************)
\* C4: after set(store, name, value) the store holds exactly one entry for name,
\* the text of value (the string itself, or the number's decimal string), and
\* the entries of every other key are unchanged in value and order.
C4_SetReplaces ==
    call.op = "set" =>
        /\ Len(RawOf(params, call.name)) = 1
        /\ call.value.t = "string" => RawOf(params, call.name)[1] = call.value.s
        /\ call.value.t = "number" =>
                RawOf(params, call.name)[1] = NumberToString(call.value.n)
        /\ Others(params, call.name) = Others(before, call.name)

\* set ran on a store with an entry of name and an entry of another key
C4_Witness ==
    /\ call.op = "set"
    /\ RawOf(before, call.name) # <<>>
    /\ Others(before, call.name) # <<>>
    /\ RawOf(before, call.name)[1] # String(call.value)

(***************************************************************************)
(* C5.  append accumulates, set collapses.                                 *)
(***************************************************************************)
\* C5 as stated: each append(store, name, value) makes getAll(store, name) one
\* element longer, value coming last after the earlier elements; and after any
\* set(store, name, value), getAll(store, name) has exactly one element.  The
\* values are those of the parameter's static type.
C5_AsStated ==
    /\ (call.op = "append" /\ call.value \in TypedValues(spec, call.name)) =>
            LET old == getAll(spec, before, call.name)
                new == getAll(spec, params, call.name)
            IN  /\ Len(new) = Len(old) + 1
                /\ SubSeq(new, 1, Len(old)) = old
                /\ SameValue(new[Len(new)], call.value)
    /\ (call.op = "set" /\ call.value \in TypedValues(spec, call.name)) =>
            Len(getAll(spec, params, call.name)) = 1

\* C5 amended: the same, for every value valid for the parameter (a string for
\* Text, a number other than NaN for Numeric, a listed literal for Enumeration).
C5_ValidAppendAccumulates ==
    /\ (call.op = "append" /\ ValidFor(spec, call.name, call.value)) =>
            LET old == getAll(spec, before, call.name)
                new == getAll(spec, params, call.name)
            IN  /\ Len(new) = Len(old) + 1
                /\ SubSeq(new, 1, Len(old)) = old
                /\ SameValue(new[Len(new)], call.value)
    /\ (call.op = "set" /\ ValidFor(spec, call.name, call.value)) =>
            Len(getAll(spec, params, call.name)) = 1

\* A valid value was appended after an earlier valid value of the same name
C5_Witness ==
    /\ call.op = "append"
    /\ ValidFor(spec, call.name, call.value)
    /\ Len(getAll(spec, before, call.name)) = 1
    /\ Len(getAll(spec, params, call.name)) = 2

(***************************************************************************)
(* C6.  isValidName.                                                       *)
(***************************************************************************)
\* C6: isValidName(candidate) is true exactly when candidate is one of the keys
\* the specification was constructed with, and false for every other string.
C6_IsValidNameIffKey ==
    call.op = "isValidName" => (ret.b <=> call.name \in Names(spec))

(***************************************************************************)
(* C7.  isValidValue.                                                      *)
(***************************************************************************)
\* C7: isValidValue(name, value) is true for Text iff value is a string, for
\* Numeric iff value is a number other than NaN (infinities included), for
\* Enumeration iff value is a string equal to one of the literals; a value of
\* any other type is never valid.
C7_IsValidValue ==
    call.op = "isValidValue" =>
        /\ ret.t = "boolean"
        /\ ret.b <=> ValidFor(spec, call.name, call.value)
        /\ call.value.t \notin {"string", "number"} => ~ret.b

\* An infinity was accepted for a Numeric parameter
C7_Witness ==
    /\ call.op = "isValidValue"
    /\ KindOf(spec, call.name) = "Numeric"
    /\ call.value.t = "number"
    /\ call.value.n.k = "inf"
    /\ ret.b

(***************************************************************************)
(* C8.  getAll decodes every entry and omits the malformed ones.           *)
(***************************************************************************)
\* C8: getAll(store, name) is, in store order, the decoding by get's rule of
\* every raw entry of name that decodes, the others omitted: it is no longer
\* than the raw entries, empty when name has none, the full raw sequence for a
\* Text parameter; and the store is left as it was.
C8_GetAllOmitsMalformed ==
    call.op = "getAll" =>
        LET raw == RawOf(before, call.name)
            decoded == [i \in 1..Len(raw) |-> Decode(spec, call.name, raw[i])]
            NotNull(v) == v # null
        IN  /\ ret = SelectSeq(decoded, NotNull)
            /\ Len(ret) <= Len(raw)
            /\ raw = <<>> => ret = <<>>
            /\ KindOf(spec, call.name) = "Text" =>
                    ret = [i \in 1..Len(raw) |-> StringValue(raw[i])]
            /\ params = before

\* getAll dropped a malformed entry that came before a well-formed one
C8_Witness ==
    /\ call.op = "getAll"
    /\ Len(RawOf(before, call.name)) = 2
    /\ Decode(spec, call.name, RawOf(before, call.name)[1]) = null
    /\ Len(ret) = 1

(***************************************************************************)
(* C9.  delete is targeted.                                                *)
(***************************************************************************)
\* C9: delete(store, name, value) removes exactly the entries of name whose text
\* is the text of value, and delete(store, name) every entry of name (has is
\* false afterwards); all other entries keep their values and order.
C9_DeleteTargeted ==
    call.op = "delete" =>
        LET Kept(en) == ~(en.key = call.name /\ en.value = String(call.value))
        IN  IF call.value # undefined
            THEN params = SelectSeq(before, Kept)
            ELSE /\ ~has(params, call.name)
                 /\ params = Others(before, call.name)

\* delete with a value removed one of two entries of name and kept the other
C9_Witness ==
    /\ call.op = "delete"
    /\ call.value # undefined
    /\ Len(RawOf(before, call.name)) = 2
    /\ Len(RawOf(params, call.name)) = 1

(***************************************************************************)
(* C10.  What get and getAll return is valid.                              *)
(***************************************************************************)
\* C10: in every state, for every name, a result of get(store, name) that is
\* not absent and every element of getAll(store, name) satisfy isValidValue;
\* and when get is not absent, has is true and getAll starts with that result.
C10_ReadsAreValid ==
    \A name \in Names(spec) :
        LET one == get(spec, params, name)
            all == getAll(spec, params, name)
        IN  /\ \A i \in 1..Len(all) : isValidValue(spec, name, all[i])
            /\ one # null =>
                    /\ isValidValue(spec, name, one)
                    /\ has(params, name)
                    /\ all # <<>>
                    /\ all[1] = one

\* After a write of a value that is not valid, get still finds a valid first
\* entry and getAll is shorter than the raw entries
C10_Witness ==
    /\ call.op \in {"set", "append"}
    /\ ~ValidFor(spec, call.name, call.value)
    /\ get(spec, params, call.name) # null
    /\ Len(getAll(spec, params, call.name)) < Len(RawOf(params, call.name))

============================================================================
